---- MODULE Spec2Model ----
(***************************************************************************)
(* Model of go-new-code-coverage: internal/diffcoverage (logic.go,         *)
(* runner.go).  Strings are sequences of one-character strings, files are  *)
(* sequences of lines, Go maps are functions with a finite domain.         *)
(***************************************************************************)
EXTENDS Integers, Sequences, FiniteSets, TLC

(***************************************************************************)
(* Go strings package, on character sequences                              *)
(***************************************************************************)
Digits == <<"0", "1", "2", "3", "4", "5", "6", "7", "8", "9">>

IsDigit(c) == \E i \in 1..10 : Digits[i] = c

DigitVal(c) == (CHOOSE i \in 1..10 : Digits[i] = c) - 1

IsSpace(c) == c \in {" ", "\t"}

HasPrefix(s, p) == Len(s) >= Len(p) /\ SubSeq(s, 1, Len(p)) = p

HasSuffix(s, p) == Len(s) >= Len(p) /\ SubSeq(s, Len(s) - Len(p) + 1, Len(s)) = p

Contains(s, p) == \E i \in 0..(Len(s) - Len(p)) : SubSeq(s, i + 1, i + Len(p)) = p

TrimPrefix(s, p) == IF HasPrefix(s, p) THEN SubSeq(s, Len(p) + 1, Len(s)) ELSE s

IndexOf(s, c) == CHOOSE i \in 1..Len(s) : s[i] = c /\ \A j \in 1..(i - 1) : s[j] # c

\* strings.Split(s, c): cut at every c; empty pieces are kept, "" gives [""]
RECURSIVE Split(_, _)
Split(s, c) ==
    IF \A i \in 1..Len(s) : s[i] # c
    THEN <<s>>
    ELSE LET i == IndexOf(s, c)
         IN  <<SubSeq(s, 1, i - 1)>> \o Split(SubSeq(s, i + 1, Len(s)), c)

\* strings.TrimSpace
RECURSIVE TrimLeft(_)
TrimLeft(s) == IF s # <<>> /\ IsSpace(s[1]) THEN TrimLeft(Tail(s)) ELSE s

RECURSIVE TrimRight(_)
TrimRight(s) ==
    IF s # <<>> /\ IsSpace(s[Len(s)]) THEN TrimRight(SubSeq(s, 1, Len(s) - 1)) ELSE s

TrimSpace(s) == TrimRight(TrimLeft(s))

\* strings.Fields(s): the maximal runs of non-space characters
RECURSIVE Fields(_)
Fields(s) ==
    LET t == TrimLeft(s)
    IN  IF t = <<>>
        THEN <<>>
        ELSE LET stop == IF \E i \in 1..Len(t) : IsSpace(t[i])
                         THEN (CHOOSE i \in 1..Len(t) :
                                  IsSpace(t[i]) /\ \A j \in 1..(i - 1) : ~IsSpace(t[j]))
                         ELSE Len(t) + 1
             IN  <<SubSeq(t, 1, stop - 1)>> \o Fields(SubSeq(t, stop, Len(t)))

\* the value of a non-empty run of decimal digits
RECURSIVE DigitsVal(_)
DigitsVal(s) ==
    IF s = <<>> THEN 0 ELSE 10 * DigitsVal(SubSeq(s, 1, Len(s) - 1)) + DigitVal(s[Len(s)])

\* strconv.Atoi: an optional sign, then one or more digits; anything else is an error
Atoi(s) ==
    LET signed == s # <<>> /\ s[1] \in {"+", "-"}
        body   == IF signed THEN Tail(s) ELSE s
        ok     == body # <<>> /\ \A i \in 1..Len(body) : IsDigit(body[i])
    IN  [ok  |-> ok,
         val |-> IF ~ok THEN 0
                 ELSE IF signed /\ s[1] = "-" THEN 0 - DigitsVal(body) ELSE DigitsVal(body)]

\* strconv.Itoa for the non-negative numbers of the inputs
RECURSIVE Itoa(_)
Itoa(n) == IF n < 10 THEN <<Digits[n + 1]>> ELSE Itoa(n \div 10) \o <<Digits[(n % 10) + 1]>>

(***************************************************************************)
(* path/filepath on a slash-separated platform                             *)
(***************************************************************************)
Separator == "/"

\* filepath.ToSlash: every Separator becomes '/'
ToSlash(p) == [i \in 1..Len(p) |-> IF p[i] = Separator THEN "/" ELSE p[i]]

JoinSlash(segs) ==
    IF segs = <<>> THEN <<>>
    ELSE LET F[i \in 1..Len(segs)] ==
                 IF i = 1 THEN segs[1] ELSE F[i - 1] \o <<"/">> \o segs[i]
         IN  F[Len(segs)]

\* filepath.Clean of a relative path: empty and "." elements are dropped, ".."
\* removes the element before it, or stays when there is none
RECURSIVE CleanSegs(_, _)
CleanSegs(segs, out) ==
    IF segs = <<>> THEN out
    ELSE LET h == Head(segs)
         IN  IF h = <<>> \/ h = <<".">>
             THEN CleanSegs(Tail(segs), out)
             ELSE IF h = <<".", ".">>
                  THEN IF out # <<>> /\ out[Len(out)] # <<".", ".">>
                       THEN CleanSegs(Tail(segs), SubSeq(out, 1, Len(out) - 1))
                       ELSE CleanSegs(Tail(segs), Append(out, h))
                  ELSE CleanSegs(Tail(segs), Append(out, h))

Clean(p) ==
    LET segs == CleanSegs(Split(p, "/"), <<>>)
    IN  IF segs = <<>> THEN <<".">> ELSE JoinSlash(segs)

\* filepath.Join(a, b) for a relative a: empty elements are ignored, the rest is
\* joined with the separator and cleaned
Join(a, b) ==
    IF a = <<>> /\ b = <<>> THEN <<>>
    ELSE IF a = <<>> THEN Clean(b)
    ELSE IF b = <<>> THEN Clean(a)
    ELSE Clean(a \o <<"/">> \o b)

(***************************************************************************)
(* Files.  A file is missing (os.Open fails) or holds lines.  LongLine     *)
(* stands for a line of bufio.MaxScanTokenSize bytes or more: the Scanner  *)
(* of logic.go stops there and Err() reports bufio.ErrTooLong.             *)
(***************************************************************************)
LongLine == <<"<line of 64 KiB or more>">>

NoFile == [exists |-> FALSE, lines |-> <<>>]

TextFile(ls) == [exists |-> TRUE, lines |-> ls]

\* the lines scanner.Scan() delivers before it returns false
RECURSIVE Scanned(_)
Scanned(ls) ==
    IF ls = <<>> \/ Head(ls) = LongLine THEN <<>> ELSE <<Head(ls)>> \o Scanned(Tail(ls))

\* scanner.Err() after the loop
ScanErr(ls) == \E i \in 1..Len(ls) : ls[i] = LongLine

(***************************************************************************)
(* Go maps                                                                 *)
(***************************************************************************)
EmptyMap == [k \in {} |-> {}]

MapPut(m, k, v) == [x \in (DOMAIN m) \cup {k} |-> IF x = k THEN v ELSE m[x]]

MapGet(m, k, default) == IF k \in DOMAIN m THEN m[k] ELSE default

(***************************************************************************)
(* Literals                                                                *)
(***************************************************************************)
StrModeColon == <<"m", "o", "d", "e", ":">>

StrModule == <<"m", "o", "d", "u", "l", "e">>

StrDotGo == <<".", "g", "o">>

StrTestGo == <<"_", "t", "e", "s", "t", ".", "g", "o">>

StrCoverage == <<"c", "o", "v", "e", "r", "a", "g", "e">>

StrPlus3 == <<"+", "+", "+", " ">>

StrBSlash == <<"b", "/">>

(***************************************************************************)
(* parseCoverFile (logic.go:58-136)                                        *)
(***************************************************************************)
\* MarkCovered without the test of the hit count
MarkCoveredAnyCount(cov, relPath, coverageCount, startLine, endLine) ==
    LET normalizedPath == ToSlash(relPath)
    IN  MapPut(cov, normalizedPath,
               MapGet(cov, normalizedPath, {}) \cup (startLine..endLine))

\* MarkCovered putting the range of the entry in the place of the lines marked so far
MarkCoveredReplace(cov, relPath, coverageCount, startLine, endLine) ==
    IF coverageCount > 0
    THEN MapPut(cov, ToSlash(relPath), startLine..endLine)
    ELSE cov

\* lines startLine..endLine of the entry, marked when coverageCount > 0
MarkCovered(cov, relPath, coverageCount, startLine, endLine) ==
    IF coverageCount > 0
    THEN LET normalizedPath == ToSlash(relPath)
         IN  MapPut(cov, normalizedPath,
                    MapGet(cov, normalizedPath, {}) \cup (startLine..endLine))
    ELSE cov

\* the range part "startLine.startCol,endLine.endCol" of an entry
CoverRange(cov, relPath, coverageCount, rangePart) ==
    LET rangeSplit == Split(rangePart, ",")
    IN  IF Len(rangeSplit) # 2 THEN cov
        ELSE LET startSplit == Split(rangeSplit[1], ".")
                 endSplit   == Split(rangeSplit[2], ".")
             IN  IF Len(startSplit) # 2 \/ Len(endSplit) # 2 THEN cov
                 ELSE LET startLine == Atoi(startSplit[1])
                          endLine   == Atoi(endSplit[1])
                      IN  IF ~startLine.ok THEN cov
                          ELSE IF ~endLine.ok THEN cov
                          ELSE MarkCovered(cov, relPath, coverageCount,
                                           startLine.val, endLine.val)

\* one iteration of the scanner loop: the CoveredLines after `line`
CoverLine(cov, line, moduleName) ==
    IF HasPrefix(line, StrModeColon) THEN cov
    ELSE LET parts == Split(line, " ")
         IN  IF Len(parts) # 3 THEN cov
             ELSE LET pathAndRange == Split(parts[1], ":")
                  IN  IF Len(pathAndRange) # 2 THEN cov
                      ELSE LET absPath   == pathAndRange[1]
                               rangePart == pathAndRange[2]
                           IN  IF ~HasPrefix(absPath, moduleName \o <<"/">>) THEN cov
                               ELSE LET relPath == TrimPrefix(absPath, moduleName \o <<"/">>)
                                        coverageCount == Atoi(parts[3])
                                    IN  IF ~coverageCount.ok THEN cov
                                        ELSE CoverRange(cov, relPath, coverageCount.val,
                                                        rangePart)

\* CoverLines leaving the loop, instead of continuing, at a line that does not
\* have three fields
RECURSIVE CoverLinesBreak(_, _, _)
CoverLinesBreak(cov, ls, moduleName) ==
    IF ls = <<>> THEN cov
    ELSE IF ~HasPrefix(Head(ls), StrModeColon) /\ Len(Split(Head(ls), " ")) # 3 THEN cov
    ELSE CoverLinesBreak(CoverLine(cov, Head(ls), moduleName), Tail(ls), moduleName)

\* the scanner loop over the lines it delivers
RECURSIVE CoverLines(_, _, _)
CoverLines(cov, ls, moduleName) ==
    IF ls = <<>> THEN cov
    ELSE CoverLines(CoverLine(cov, Head(ls), moduleName), Tail(ls), moduleName)

\* parseCoverFile: (nil, err) when the file cannot be opened, else the coverage
\* built from the scanned lines together with scanner.Err()
\* parseCoverFile taking the first line for a header, whatever it holds
parseCoverFileSkipFirst(file, moduleName) ==
    IF ~file.exists
    THEN [isNil |-> TRUE, CoveredLines |-> EmptyMap, err |-> "open"]
    ELSE [isNil |-> FALSE,
          CoveredLines |-> LET ls == Scanned(file.lines)
                           IN  CoverLines(EmptyMap, IF ls = <<>> THEN ls ELSE Tail(ls),
                                          moduleName),
          err |-> IF ScanErr(file.lines) THEN "scan" ELSE "nil"]

\* parseCoverFile going on with an empty profile when os.Open fails
parseCoverFileNoOpenErr(file, moduleName) ==
    IF ~file.exists
    THEN [isNil |-> FALSE, CoveredLines |-> EmptyMap, err |-> "nil"]
    ELSE [isNil |-> FALSE,
          CoveredLines |-> CoverLines(EmptyMap, Scanned(file.lines), moduleName),
          err |-> IF ScanErr(file.lines) THEN "scan" ELSE "nil"]

parseCoverFile(file, moduleName) ==
    IF ~file.exists
    THEN [isNil |-> TRUE, CoveredLines |-> EmptyMap, err |-> "open"]
    ELSE [isNil |-> FALSE,
          CoveredLines |-> CoverLines(EmptyMap, Scanned(file.lines), moduleName),
          err |-> IF ScanErr(file.lines) THEN "scan" ELSE "nil"]

(***************************************************************************)
(* Inputs of parseCoverFile                                                *)
(***************************************************************************)
MaxProfileLen == 2

ModM == <<"m">>

ModMP == <<"m", "/", "p">>

Modules == {ModM, ModMP}

PathA == <<"a", ".", "g", "o">>

PathB == <<"b", ".", "g", "o">>

PathPA == <<"p", "/", "a", ".", "g", "o">>

\* profile paths: inside module m, inside m and m/p, outside both ("mx" only
\* shares the letters of "m")
CoverPaths == {ModM \o <<"/">> \o PathA, ModM \o <<"/">> \o PathPA,
               <<"m", "x", "/">> \o PathA}

CoverSpans == {<<1, 2>>, <<2, 3>>, <<3, 1>>}

CoverEntries ==
    [path : CoverPaths, span : CoverSpans, count : {0, 1}]
        \cup {[path |-> ModM \o <<"/">> \o PathA, span |-> <<3, 3>>, count |-> 12]}

\* "<path>:<startLine>.<startCol>,<endLine>.<endCol> <statementCount> <hitCount>"
FormatEntry(e) ==
    e.path \o <<":">> \o Itoa(e.span[1]) \o <<".", "0", ",">> \o Itoa(e.span[2])
           \o <<".", "9", " ", "1", " ">> \o Itoa(e.count)

EntryHead == ModM \o <<"/">> \o PathA \o <<":">>

\* one line for every check of the loop that ends in `continue`
MalformedLines ==
    { <<>>,
      EntryHead \o <<"1", ".", "0", ",", "2", ".", "0", " ", "1">>,
      EntryHead \o <<"1", ".", "0", ",", "2", ".", "0", " ", " ", "1", " ", "1">>,
      ModM \o <<"/">> \o PathA \o <<" ", "1", " ", "1">>,
      EntryHead \o <<"1", ".", "0", ",", "2", ".", "0", " ", "1", " ", "x">>,
      EntryHead \o <<"1", ".", "0", ",", "2", ".", "0", ",", "9", " ", "1", " ", "1">>,
      EntryHead \o <<"1", ".", "0", ".", "9", ",", "2", ".", "0", " ", "1", " ", "1">>,
      EntryHead \o <<"x", ".", "0", ",", "2", ".", "0", " ", "1", " ", "1">>,
      EntryHead \o <<"1", ".", "0", ",", "x", ".", "0", " ", "1", " ", "1">> }

ModeLine == StrModeColon \o <<" ", "s", "e", "t">>

CoverLineSet ==
    {FormatEntry(e) : e \in CoverEntries} \cup MalformedLines \cup {ModeLine, LongLine}

SeqsUpTo(S, n) == UNION {[1..k -> S] : k \in 0..n}

StrictlyAscending(xs) == \A i \in 1..(Len(xs) - 1) : xs[i] < xs[i + 1]

Elements(xs) == {xs[i] : i \in DOMAIN xs}

CoverFiles == {NoFile} \cup {TextFile(ls) : ls \in SeqsUpTo(CoverLineSet, MaxProfileLen)}

NotReturned == [returned |-> FALSE]

Returned(v) == [returned |-> TRUE, value |-> v]

(***************************************************************************)
(* parseGoMod (logic.go:31-55)                                             *)
(***************************************************************************)
\* the scanner loop: the first line that, trimmed, begins with "module " and
\* has two fields gives the result
RECURSIVE GoModLines(_)
GoModLines(ls) ==
    IF ls = <<>> THEN [found |-> FALSE, name |-> <<>>]
    ELSE LET line == TrimSpace(Head(ls))
         IN  IF HasPrefix(line, StrModule \o <<" ">>) /\ Len(Fields(line)) >= 2
             THEN [found |-> TRUE, name |-> Fields(line)[2]]
             ELSE GoModLines(Tail(ls))

parseGoMod(file) ==
    IF ~file.exists THEN [name |-> <<>>, err |-> "open"]
    ELSE LET r == GoModLines(Scanned(file.lines))
         IN  IF r.found THEN [name |-> r.name, err |-> "nil"]
             ELSE IF ScanErr(file.lines) THEN [name |-> <<>>, err |-> "read"]
             ELSE [name |-> <<>>, err |-> "no module"]

(***************************************************************************)
(* parseDiffFile (logic.go:138-208)                                        *)
(***************************************************************************)
\* the last index of the run of digits of s that starts at i (i - 1: no digit)
RECURSIVE DigitRunEnd(_, _)
DigitRunEnd(s, i) ==
    IF i <= Len(s) /\ IsDigit(s[i]) THEN DigitRunEnd(s, i + 1) ELSE i - 1

\* the index after an optional ",\d+" at i
SkipCommaDigits(s, i) ==
    IF i <= Len(s) /\ s[i] = "," /\ DigitRunEnd(s, i + 1) >= i + 1
    THEN DigitRunEnd(s, i + 1) + 1
    ELSE i

LitAt(s, i, lit) == i + Len(lit) - 1 <= Len(s) /\ SubSeq(s, i, i + Len(lit) - 1) = lit

\* hunkHeaderRegex `@@ -(\d+)(?:,\d+)? \+(\d+)(?:,\d+)? @@` tried at index i:
\* whether it matches there, and its second group
HunkAt(s, i) ==
    LET oldEnd  == DigitRunEnd(s, i + 4)
        afterOld == SkipCommaDigits(s, oldEnd + 1)
        newEnd  == DigitRunEnd(s, afterOld + 2)
        afterNew == SkipCommaDigits(s, newEnd + 1)
        ok == /\ LitAt(s, i, <<"@", "@", " ", "-">>)
              /\ oldEnd >= i + 4
              /\ LitAt(s, afterOld, <<" ", "+">>)
              /\ newEnd >= afterOld + 2
              /\ LitAt(s, afterNew, <<" ", "@", "@">>)
    IN  [ok |-> ok, newStart |-> IF ok THEN SubSeq(s, afterOld + 2, newEnd) ELSE <<>>]

\* hunkHeaderRegex.MatchString: the pattern is not anchored
HunkMatches(s) == \E i \in 1..Len(s) : HunkAt(s, i).ok

\* hunkHeaderRegex.FindStringSubmatch(line)[2]: group 2 of the leftmost match
HunkNewStart(s) ==
    LET i == CHOOSE k \in 1..Len(s) : HunkAt(s, k).ok /\ \A j \in 1..(k - 1) : ~HunkAt(s, j).ok
    IN  HunkAt(s, i).newStart

DiffStart == [NewLines |-> EmptyMap, currentFile |-> <<>>, plusStartLine |-> 0]

\* a "+++ " line: the second field, less a leading "b/", under the module name
DiffFileMarker(d, line, moduleName) ==
    LET fields == Fields(line)
    IN  IF Len(fields) >= 2
        THEN LET path == TrimPrefix(fields[2], StrBSlash)
                 fullPath == Join(moduleName, path)
             IN  [d EXCEPT !.currentFile = ToSlash(fullPath)]
        ELSE d

\* DiffAddedLine without the test of currentFile against "_test.go"
DiffAddedLineAnyGo(d) ==
    IF d.currentFile = <<>> THEN d
    ELSE IF ~HasSuffix(d.currentFile, StrDotGo) THEN d
    ELSE [d EXCEPT !.NewLines = MapPut(d.NewLines, d.currentFile,
                                       MapGet(d.NewLines, d.currentFile, {})
                                           \cup {d.plusStartLine}),
                   !.plusStartLine = d.plusStartLine + 1]

\* a line that starts with '+': recorded for a non-test .go currentFile
DiffAddedLine(d) ==
    IF d.currentFile = <<>> THEN d
    ELSE IF Contains(d.currentFile, StrTestGo) THEN d
    ELSE IF ~HasSuffix(d.currentFile, StrDotGo) THEN d
    ELSE [d EXCEPT !.NewLines = MapPut(d.NewLines, d.currentFile,
                                       MapGet(d.NewLines, d.currentFile, {})
                                           \cup {d.plusStartLine}),
                   !.plusStartLine = d.plusStartLine + 1]

\* one iteration of the scanner loop
DiffLine(d, line, moduleName) ==
    IF HasPrefix(line, StrPlus3) THEN DiffFileMarker(d, line, moduleName)
    ELSE IF HunkMatches(line)
         THEN [d EXCEPT !.plusStartLine = Atoi(HunkNewStart(line)).val]
    ELSE IF HasPrefix(line, <<"+">>) /\ ~HasPrefix(line, StrPlus3) THEN DiffAddedLine(d)
    ELSE d

RECURSIVE DiffLines(_, _, _)
DiffLines(d, ls, moduleName) ==
    IF ls = <<>> THEN d
    ELSE DiffLines(DiffLine(d, Head(ls), moduleName), Tail(ls), moduleName)

\* parseDiffFile returning nil instead of scanner.Err()
parseDiffFileNoScanErr(file, moduleName) ==
    IF ~file.exists
    THEN [isNil |-> TRUE, NewLines |-> EmptyMap, err |-> "open"]
    ELSE [isNil |-> FALSE,
          NewLines |-> DiffLines(DiffStart, Scanned(file.lines), moduleName).NewLines,
          err |-> "nil"]

parseDiffFile(file, moduleName) ==
    IF ~file.exists
    THEN [isNil |-> TRUE, NewLines |-> EmptyMap, err |-> "open"]
    ELSE [isNil |-> FALSE,
          NewLines |-> DiffLines(DiffStart, Scanned(file.lines), moduleName).NewLines,
          err |-> IF ScanErr(file.lines) THEN "scan" ELSE "nil"]

(***************************************************************************)
(* parseGoFiles, isLineInFunctions (logic.go:210-265)                      *)
(* The source tree maps a full path to what os.Stat and parser.ParseFile   *)
(* find there: a directory, a file that does not parse, or the top-level   *)
(* declarations of a file with the lines of their first and last token.    *)
(***************************************************************************)
\* FuncRange without the exclusion of the last line
FuncRangeWhole(decl) == <<decl.start, decl.end>>

\* the range recorded for a FuncDecl
FuncRange(decl) ==
    LET start == decl.start
        end   == decl.end
    IN  IF end > start THEN <<start, end - 1>> ELSE <<start, end>>

\* the ranges of the FuncDecls among the declarations, in source order
RECURSIVE DeclRanges(_)
DeclRanges(decls) ==
    IF decls = <<>> THEN <<>>
    ELSE (IF Head(decls).isFunc THEN <<FuncRange(Head(decls))>> ELSE <<>>)
             \o DeclRanges(Tail(decls))

\* GoFile making the entry of the file before it parses the file
GoFileEntryFirst(functions, rootDir, relPath, tree) ==
    LET fullPath == Join(rootDir, relPath)
    IN  IF fullPath \notin DOMAIN tree THEN functions
        ELSE IF tree[fullPath].isDir THEN functions
        ELSE IF ~HasSuffix(fullPath, StrDotGo) THEN functions
        ELSE LET normalizedPath == ToSlash(relPath)
                 ranges == IF tree[fullPath].parses THEN DeclRanges(tree[fullPath].decls)
                           ELSE <<>>
             IN  MapPut(functions, normalizedPath,
                        MapGet(functions, normalizedPath, <<>>) \o ranges)

\* one iteration of the loop over files
GoFile(functions, rootDir, relPath, tree) ==
    LET fullPath == Join(rootDir, relPath)
    IN  IF fullPath \notin DOMAIN tree THEN functions
        ELSE IF tree[fullPath].isDir THEN functions
        ELSE IF ~HasSuffix(fullPath, StrDotGo) THEN functions
        ELSE IF ~tree[fullPath].parses THEN functions
        ELSE LET normalizedPath == ToSlash(relPath)
                 ranges == DeclRanges(tree[fullPath].decls)
             IN  IF ranges = <<>> THEN functions
                 ELSE MapPut(functions, normalizedPath,
                             MapGet(functions, normalizedPath, <<>>) \o ranges)

\* parseGoFiles reading every file under rootDir instead of the files it is given
parseGoFilesWholeTree(functions, rootDir, files, tree) ==
    LET parsed == {relPath \in {TrimPrefix(fullPath, rootDir \o <<"/">>) :
                                   fullPath \in DOMAIN tree} :
                      GoFile(EmptyMap, rootDir, relPath, tree) # EmptyMap}
    IN  [relPath \in parsed |-> GoFile(EmptyMap, rootDir, relPath, tree)[relPath]]

RECURSIVE parseGoFiles(_, _, _, _)
parseGoFiles(functions, rootDir, files, tree) ==
    IF files = <<>> THEN functions
    ELSE parseGoFiles(GoFile(functions, rootDir, Head(files), tree), rootDir,
                      Tail(files), tree)

\* isLineInFunctions without the test against the end of the range
isLineInFunctionsNoEnd(file, line, functions) ==
    /\ file \in DOMAIN functions
    /\ \E i \in 1..Len(functions[file]) : line >= functions[file][i][1]

\* isLineInFunctions taking the line after a range for a line of the range
isLineInFunctionsPastEnd(file, line, functions) ==
    /\ file \in DOMAIN functions
    /\ \E i \in 1..Len(functions[file]) :
           line >= functions[file][i][1] /\ line <= functions[file][i][2] + 1

isLineInFunctions(file, line, functions) ==
    /\ file \in DOMAIN functions
    /\ \E i \in 1..Len(functions[file]) :
           line >= functions[file][i][1] /\ line <= functions[file][i][2]

(***************************************************************************)
(* GroupLinesIntoRanges (logic.go:267-288)                                 *)
(***************************************************************************)
\* a [][2]int that may be nil
NilRanges == [isNil |-> TRUE, ranges |-> <<>>]

\* the loop over lines[1:]
RECURSIVE GroupLoop(_, _, _, _)
GroupLoop(ranges, start, end, lines) ==
    IF lines = <<>> THEN [ranges |-> ranges, start |-> start, end |-> end]
    ELSE LET line == Head(lines)
         IN  IF line = end + 1
             THEN GroupLoop(ranges, start, line, Tail(lines))
             ELSE GroupLoop(Append(ranges, <<start, end>>), line, line, Tail(lines))

\* GroupLinesIntoRanges without the append after the loop
GroupLinesNoLast(lines) ==
    IF Len(lines) = 0 THEN NilRanges
    ELSE LET l == GroupLoop(<<>>, lines[1], lines[1], Tail(lines))
         IN  [isNil |-> l.ranges = <<>>, ranges |-> l.ranges]

GroupLinesIntoRanges(lines) ==
    IF Len(lines) = 0 THEN NilRanges
    ELSE LET l == GroupLoop(<<>>, lines[1], lines[1], Tail(lines))
         IN  [isNil |-> FALSE, ranges |-> Append(l.ranges, <<l.start, l.end>>)]

(***************************************************************************)
(* RunDiffCoverage (runner.go:14-95)                                       *)
(***************************************************************************)
RECURSIVE Gcd(_, _)
Gcd(a, b) == IF b = 0 THEN a ELSE Gcd(b, a % b)

\* a float64 result, kept exact as a fraction in lowest terms
Float(n, d) == LET g == Gcd(n, d) IN [num |-> n \div g, den |-> d \div g]

\* p < minCoverage
FloatLess(p, min) == p.num < min * p.den

\* sort.Ints
RECURSIVE Insert(_, _)
Insert(sorted, x) ==
    IF sorted = <<>> THEN <<x>>
    ELSE IF x <= Head(sorted) THEN <<x>> \o sorted
    ELSE <<Head(sorted)>> \o Insert(Tail(sorted), x)

\* SortInts that leaves the slice as it is
SortNone(xs) == xs

RECURSIVE SortInts(_)
SortInts(xs) == IF xs = <<>> THEN <<>> ELSE Insert(SortInts(Tail(xs)), Head(xs))

\* the key used for funcLines and coverageData (runner.go:33-38 and 56-61)
\* runner.go:32-37, 56-61: the key without the prefix moduleName + "/"
RelFile(file, moduleName) ==
    IF HasPrefix(file, moduleName \o <<"/">>)
    THEN TrimPrefix(file, moduleName \o <<"/">>)
    ELSE file

\* a Go map value that may be nil
NilMap == [isNil |-> TRUE, m |-> EmptyMap]

GoMap(m) == [isNil |-> FALSE, m |-> m]

Result(percent, uncovered, err) ==
    [percent |-> percent, uncovered |-> uncovered, err |-> err]

\* the return when filesToAnalyze is empty (runner.go:41-44), with the empty map
\* of the later returns in place of nil
NoFilesEmptyMap == Result(Float(100, 1), GoMap(EmptyMap), "nil")

\* the return when filesToAnalyze is empty (runner.go:41-44)
NoFiles == Result(Float(100, 1), NilMap, "nil")

\* Verdict returning zero values with the below-threshold error
VerdictZeroed(totalNewLines, coveredNewLines, uncoveredLinesMap, minCoverage) ==
    IF totalNewLines = 0
    THEN Result(Float(100, 1), GoMap(uncoveredLinesMap), "nil")
    ELSE LET coveragePercent == Float(100 * coveredNewLines, totalNewLines)
         IN  IF FloatLess(coveragePercent, minCoverage)
             THEN Result(Float(0, 1), NilMap, "below minimum")
             ELSE Result(coveragePercent, GoMap(uncoveredLinesMap), "nil")

\* Verdict with the operands of the comparison exchanged
VerdictSwapped(totalNewLines, coveredNewLines, uncoveredLinesMap, minCoverage) ==
    IF totalNewLines = 0
    THEN Result(Float(100, 1), GoMap(uncoveredLinesMap), "nil")
    ELSE LET coveragePercent == Float(100 * coveredNewLines, totalNewLines)
         IN  IF minCoverage * coveragePercent.den < coveragePercent.num
             THEN Result(coveragePercent, GoMap(uncoveredLinesMap), "below minimum")
             ELSE Result(coveragePercent, GoMap(uncoveredLinesMap), "nil")

\* Verdict returning a nil map with the below-threshold error
VerdictNilMap(totalNewLines, coveredNewLines, uncoveredLinesMap, minCoverage) ==
    IF totalNewLines = 0
    THEN Result(Float(100, 1), GoMap(uncoveredLinesMap), "nil")
    ELSE LET coveragePercent == Float(100 * coveredNewLines, totalNewLines)
         IN  IF FloatLess(coveragePercent, minCoverage)
             THEN Result(coveragePercent, NilMap, "below minimum")
             ELSE Result(coveragePercent, GoMap(uncoveredLinesMap), "nil")

\* Verdict failing also when the percentage equals the threshold
VerdictNonStrict(totalNewLines, coveredNewLines, uncoveredLinesMap, minCoverage) ==
    IF totalNewLines = 0
    THEN Result(Float(100, 1), GoMap(uncoveredLinesMap), "nil")
    ELSE LET coveragePercent == Float(100 * coveredNewLines, totalNewLines)
         IN  IF coveragePercent.num <= minCoverage * coveragePercent.den
             THEN Result(coveragePercent, GoMap(uncoveredLinesMap), "below minimum")
             ELSE Result(coveragePercent, GoMap(uncoveredLinesMap), "nil")

\* the three return statements after the loop (runner.go:82-94)
Verdict(totalNewLines, coveredNewLines, uncoveredLinesMap, minCoverage) ==
    IF totalNewLines = 0
    THEN Result(Float(100, 1), GoMap(uncoveredLinesMap), "nil")
    ELSE LET coveragePercent == Float(100 * coveredNewLines, totalNewLines)
         IN  IF FloatLess(coveragePercent, minCoverage)
             THEN Result(coveragePercent, GoMap(uncoveredLinesMap), "below minimum")
             ELSE Result(coveragePercent, GoMap(uncoveredLinesMap), "nil")

\* CountLine without the test that the line is inside a function
CountLineAnywhere(c, relFile, line, functions, covered) ==
    IF relFile \in DOMAIN covered /\ line \in covered[relFile]
    THEN [c EXCEPT !.totalNewLines = c.totalNewLines + 1,
                   !.coveredNewLines = c.coveredNewLines + 1]
    ELSE [c EXCEPT !.totalNewLines = c.totalNewLines + 1,
                   !.uncoveredLinesMap =
                       MapPut(c.uncoveredLinesMap, relFile,
                              Append(MapGet(c.uncoveredLinesMap, relFile, <<>>), line))]

\* CountLine leaving a line that is not covered out of the uncovered map
CountLineUnlisted(c, relFile, line, functions, covered) ==
    IF ~isLineInFunctions(relFile, line, functions) THEN c
    ELSE IF relFile \in DOMAIN covered /\ line \in covered[relFile]
         THEN [c EXCEPT !.totalNewLines = c.totalNewLines + 1,
                        !.coveredNewLines = c.coveredNewLines + 1]
         ELSE [c EXCEPT !.totalNewLines = c.totalNewLines + 1]

\* CountLine counting a line once for every function range that holds it
CountLinePerRange(c, relFile, line, functions, covered) ==
    LET holding == IF relFile \in DOMAIN functions
                   THEN {i \in 1..Len(functions[relFile]) :
                            /\ line >= functions[relFile][i][1]
                            /\ line <= functions[relFile][i][2]}
                   ELSE {}
        n == Cardinality(holding)
    IN  IF n = 0 THEN c
        ELSE IF relFile \in DOMAIN covered /\ line \in covered[relFile]
             THEN [c EXCEPT !.totalNewLines = c.totalNewLines + n,
                            !.coveredNewLines = c.coveredNewLines + 1]
             ELSE [c EXCEPT !.totalNewLines = c.totalNewLines + n,
                            !.uncoveredLinesMap =
                                MapPut(c.uncoveredLinesMap, relFile,
                                       Append(MapGet(c.uncoveredLinesMap, relFile, <<>>),
                                              line))]

\* the body of the inner loop for one line of one file (runner.go:63-73)
CountLine(c, relFile, line, functions, covered) ==
    IF ~isLineInFunctions(relFile, line, functions) THEN c
    ELSE IF relFile \in DOMAIN covered /\ line \in covered[relFile]
         THEN [c EXCEPT !.totalNewLines = c.totalNewLines + 1,
                        !.coveredNewLines = c.coveredNewLines + 1]
         ELSE [c EXCEPT !.totalNewLines = c.totalNewLines + 1,
                        !.uncoveredLinesMap =
                            MapPut(c.uncoveredLinesMap, relFile,
                                   Append(MapGet(c.uncoveredLinesMap, relFile, <<>>), line))]

\* runner.go:78-80
SortUncovered(uncoveredLinesMap) ==
    [f \in DOMAIN uncoveredLinesMap |-> SortInts(uncoveredLinesMap[f])]

(***************************************************************************)
(* Inputs of RunDiffCoverage                                               *)
(***************************************************************************)
MaxLine == 3

MaxAdded == 2

sourceRoot == <<"r">>

ManifestFiles ==
    { NoFile,
      TextFile(<< <<"g", "o", " ", "1">> >>),
      TextFile(<< StrModule \o <<" ">> \o ModM >>) }

EntryLine(path, from, to, count) ==
    FormatEntry([path |-> ModM \o <<"/">> \o path, span |-> <<from, to>>, count |-> count])

RunnerCoverFiles ==
    { NoFile,
      TextFile(<<LongLine>>),
      TextFile(<<ModeLine>>),
      TextFile(<<ModeLine, EntryLine(PathA, 1, 2, 1)>>),
      TextFile(<<ModeLine, EntryLine(PathA, 2, 3, 0)>>),
      TextFile(<<ModeLine, EntryLine(PathA, 3, 3, 12), EntryLine(PathB, 1, 2, 1)>>) }

FileMarker(path) == StrPlus3 \o StrBSlash \o path

HunkHeader(start, count) ==
    <<"@", "@", " ", "-", "0", ",", "0", " ", "+">> \o Itoa(start) \o <<",">>
        \o Itoa(count) \o <<" ", "@", "@">>

AddedText == <<"+", "x">>

\* the diff of one file: its marker, one hunk header, `count` added lines
FileDiff(path, start, count) ==
    <<FileMarker(path), HunkHeader(start, count)>> \o [i \in 1..count |-> AddedText]

PathATest == <<"a">> \o StrTestGo

PathReadme == <<"r", ".", "m", "d">>

\* a source file, not a test file, in a directory whose name ends with "_test.go"
PathInTestDir == PathATest \o <<"/">> \o PathA

PathUpA == <<".", ".", "/">> \o PathA

\* a.go alone, and a test file or a file that is no Go source alone
SingleDiffs ==
    {FileDiff(PathA, start, count) : start \in 1..MaxLine, count \in 1..MaxAdded}
        \cup {FileDiff(path, 1, 1) : path \in {PathATest, PathReadme}}

\* a.go together with b.go, and a.go named twice (the second time as ../a.go,
\* which filepath.Join takes out of the module directory)
DoubleDiffs ==
    {FileDiff(PathA, start, count) \o FileDiff(other, 2, 1) :
        other \in {PathB, PathUpA}, start \in 1..MaxLine, count \in 1..MaxAdded}

RunnerDiffFiles ==
    {NoFile, TextFile(<<LongLine>>), TextFile(<<>>)}
        \cup {TextFile(ls) : ls \in SingleDiffs \cup DoubleDiffs}

FuncDecl(start, end) == [isFunc |-> TRUE, start |-> start, end |-> end]

GenDecl(start, end) == [isFunc |-> FALSE, start |-> start, end |-> end]

Dir == [isDir |-> TRUE, parses |-> FALSE, decls |-> <<>>]

BadSource == [isDir |-> FALSE, parses |-> FALSE, decls |-> <<>>]

Source(decls) == [isDir |-> FALSE, parses |-> TRUE, decls |-> decls]

FullA == sourceRoot \o <<"/">> \o PathA

FullB == sourceRoot \o <<"/">> \o PathB

TreeB == [p \in {FullB} |-> Source(<<FuncDecl(1, 3)>>)]

Trees ==
    {TreeB} \cup
    {MapPut(TreeB, FullA, info) :
        info \in {Dir, BadSource,
                  Source(<<GenDecl(1, 1)>>),
                  Source(<<FuncDecl(1, 1)>>),
                  Source(<<FuncDecl(1, MaxLine + 1)>>),
                  Source(<<GenDecl(1, 1), FuncDecl(2, 3), FuncDecl(3, MaxLine + 1)>>),
                  Source(<<FuncDecl(2, 2), FuncDecl(2, MaxLine + 1)>>)}}

\* thresholds: always met, met by half, met only by full coverage, never met
Mins == {0, 50, 100, 101}

(***************************************************************************)
(* State                                                                   *)
(***************************************************************************)
VARIABLES
    goMod,              \* the file sourceRoot/go.mod
    coverFile,          \* the file at coverPath
    diffFile,           \* the file at diffPath
    tree,               \* the files under sourceRoot
    minCoverage,
    pc,                 \* the statement RunDiffCoverage is at
    moduleName,
    coverageData,       \* coverageData.CoveredLines
    diffData,           \* diffData.NewLines
    funcLines,          \* funcLines.Functions
    counters,           \* totalNewLines, coveredNewLines, uncoveredLinesMap
    iter,               \* the two range loops over diffData.NewLines
    ret,                \* what RunDiffCoverage returned
    run,                \* 1 in the first call of RunDiffCoverage, 2 in the second
    prev,               \* minCoverage and result of the call before
    cvFile, cvModule, cvRet,  \* a call of parseCoverFile alone
    dfFile, dfModule,         \* a call of parseDiffFile alone:
    dfPos, dfData, dfRet,     \*   lines scanned, its local variables, its result
    gfFiles, gfTree, gfRet,   \* a call of parseGoFiles alone
    grLines, grRet,           \* a call of GroupLinesIntoRanges
    gmFile, gmRet, mnRet             \* a call of parseGoMod alone

inputs == <<goMod, coverFile, diffFile, tree>>

locals == <<moduleName, coverageData, diffData, funcLines, counters, iter>>

cvVars == <<cvFile, cvModule, cvRet>>

dfVars == <<dfFile, dfModule, dfPos, dfData, dfRet>>

gfVars == <<gfFiles, gfTree, gfRet>>

grVars == <<grLines, grRet>>

gmVars == <<gmFile, gmRet>>

mnVars == <<mnRet>>

\* the variables of the calls of single functions
callVars == <<cvVars, dfVars, gfVars, grVars, gmVars, mnVars>>

runnerVars == <<inputs, minCoverage, pc, locals, ret, run, prev>>

vars == <<runnerVars, callVars>>

NoCounters == [totalNewLines |-> 0, coveredNewLines |-> 0, uncoveredLinesMap |-> EmptyMap]

NoIter == [files |-> {}, relFile |-> <<>>, lines |-> {}]

NoPrev == [minCoverage |-> 0, ret |-> NotReturned]

LocalsInit ==
    /\ moduleName = <<>>
    /\ coverageData = EmptyMap
    /\ diffData = EmptyMap
    /\ funcLines = EmptyMap
    /\ counters = NoCounters
    /\ iter = NoIter

CoverIdle == cvFile = NoFile /\ cvModule = <<>> /\ cvRet = NotReturned

DiffIdle ==
    /\ dfFile = NoFile /\ dfModule = <<>> /\ dfPos = 0 /\ dfData = DiffStart
    /\ dfRet = NotReturned

GoFilesIdle == gfFiles = <<>> /\ gfTree = EmptyMap /\ gfRet = NotReturned

GroupIdle == grLines = <<>> /\ grRet = NotReturned

GoModIdle == gmFile = NoFile /\ gmRet = NotReturned

MainIdle == mnRet = NotReturned

RunnerIdle ==
    /\ goMod = NoFile /\ coverFile = NoFile /\ diffFile = NoFile /\ tree = EmptyMap
    /\ minCoverage = 0
    /\ pc = "idle"
    /\ LocalsInit
    /\ ret = NotReturned
    /\ run = 0
    /\ prev = NoPrev

(***************************************************************************)
(* RunDiffCoverage, statement by statement                                 *)
(***************************************************************************)
Init ==
    /\ goMod \in ManifestFiles
    /\ coverFile \in RunnerCoverFiles
    /\ diffFile \in RunnerDiffFiles
    /\ tree \in Trees
    /\ minCoverage \in Mins
    /\ pc = "parseGoMod"
    /\ LocalsInit
    /\ ret = NotReturned
    /\ run = 1
    /\ prev = NoPrev
    /\ CoverIdle /\ DiffIdle /\ GoFilesIdle /\ GroupIdle /\ GoModIdle /\ MainIdle

Return(percent, uncovered, err) ==
    /\ ret' = Returned(Result(percent, uncovered, err))
    /\ pc' = "done"

\* runner.go:16-19
ParseGoMod ==
    /\ pc = "parseGoMod"
    /\ LET r == parseGoMod(goMod)
       IN  IF r.err # "nil"
           THEN /\ Return(Float(0, 1), NilMap, "go.mod")
                /\ UNCHANGED moduleName
           ELSE /\ moduleName' = r.name
                /\ pc' = "parseCoverFile"
                /\ UNCHANGED ret
    /\ UNCHANGED <<inputs, minCoverage, coverageData, diffData, funcLines, counters,
                   iter, run, prev, callVars>>

\* runner.go:21-24
ParseCoverFile ==
    /\ pc = "parseCoverFile"
    /\ LET r == parseCoverFile(coverFile, moduleName)
       IN  IF r.err # "nil"
           THEN /\ Return(Float(0, 1), NilMap, "cover file")
                /\ UNCHANGED coverageData
           ELSE /\ coverageData' = r.CoveredLines
                /\ pc' = "parseDiffFile"
                /\ UNCHANGED ret
    /\ UNCHANGED <<inputs, minCoverage, moduleName, diffData, funcLines, counters,
                   iter, run, prev, callVars>>

\* runner.go:26-29
ParseDiffFile ==
    /\ pc = "parseDiffFile"
    /\ LET r == parseDiffFile(diffFile, moduleName)
       IN  IF r.err # "nil"
           THEN /\ Return(Float(0, 1), NilMap, "diff file")
                /\ UNCHANGED diffData
           ELSE /\ diffData' = r.NewLines
                /\ pc' = "parseGoFiles"
                /\ UNCHANGED ret
    /\ UNCHANGED <<inputs, minCoverage, moduleName, coverageData, funcLines, counters,
                   iter, run, prev, callVars>>

\* the orders in which a range loop may visit the keys of a map
Orders(S) == {o \in [1..Cardinality(S) -> S] : \A i, j \in DOMAIN o : i # j => o[i] # o[j]}

\* runner.go:31-53: filesToAnalyze in the order the map gives, the early return
\* when it is empty, parseGoFiles, and the initial values of the counters
ParseGoFiles ==
    /\ pc = "parseGoFiles"
    /\ \E order \in Orders(DOMAIN diffData) :
          LET filesToAnalyze == [i \in DOMAIN order |-> RelFile(order[i], moduleName)]
          IN  IF Len(filesToAnalyze) = 0
              THEN /\ Return(NoFiles.percent, NoFiles.uncovered, NoFiles.err)
                   /\ UNCHANGED <<funcLines, counters, iter>>
              ELSE /\ funcLines' = parseGoFiles(EmptyMap, sourceRoot, filesToAnalyze, tree)
                   /\ counters' = NoCounters
                   /\ iter' = [files |-> DOMAIN diffData, relFile |-> <<>>, lines |-> {}]
                   /\ pc' = "correlate"
                   /\ UNCHANGED ret
    /\ UNCHANGED <<inputs, minCoverage, moduleName, coverageData, diffData, run, prev,
                   callVars>>

\* runner.go:55-75: one iteration of the inner loop, on the next line of the
\* file the outer loop is at or, when that file is finished, on the first line
\* of a file the outer loop has not visited; both maps are ranged over in any order
Correlate ==
    /\ pc = "correlate"
    /\ \/ /\ iter.lines # {}
          /\ \E line \in iter.lines :
                /\ counters' = CountLine(counters, iter.relFile, line, funcLines, coverageData)
                /\ iter' = [iter EXCEPT !.lines = iter.lines \ {line}]
       \/ /\ iter.lines = {}
          /\ \E file \in iter.files :
                LET relFile == RelFile(file, moduleName)
                IN  \E line \in diffData[file] :
                       /\ counters' = CountLine(counters, relFile, line, funcLines,
                                                coverageData)
                       /\ iter' = [files |-> iter.files \ {file}, relFile |-> relFile,
                                   lines |-> diffData[file] \ {line}]
    /\ UNCHANGED <<inputs, minCoverage, pc, moduleName, coverageData, diffData, funcLines,
                   ret, run, prev, callVars>>

\* runner.go:77-94: both loops are finished; sort, then return
Finish ==
    /\ pc = "correlate"
    /\ iter.lines = {} /\ iter.files = {}
    /\ LET sorted == SortUncovered(counters.uncoveredLinesMap)
           r == Verdict(counters.totalNewLines, counters.coveredNewLines, sorted,
                        minCoverage)
       IN  /\ counters' = [counters EXCEPT !.uncoveredLinesMap = sorted]
           /\ Return(r.percent, r.uncovered, r.err)
    /\ UNCHANGED <<inputs, minCoverage, moduleName, coverageData, diffData, funcLines,
                   iter, run, prev, callVars>>

\* RunDiffCoverage is called again on the same files, with any threshold
CallAgain ==
    /\ pc = "done"
    /\ run = 1
    /\ prev' = [minCoverage |-> minCoverage, ret |-> ret]
    /\ run' = run + 1
    /\ minCoverage' \in Mins
    /\ pc' = "parseGoMod"
    /\ moduleName' = <<>>
    /\ coverageData' = EmptyMap
    /\ diffData' = EmptyMap
    /\ funcLines' = EmptyMap
    /\ counters' = NoCounters
    /\ iter' = NoIter
    /\ ret' = NotReturned
    /\ UNCHANGED <<inputs, callVars>>

Next ==
    \/ ParseGoMod
    \/ ParseCoverFile
    \/ ParseDiffFile
    \/ ParseGoFiles
    \/ Correlate
    \/ Finish
    \/ CallAgain

Spec == Init /\ [][Next]_vars

(***************************************************************************)
(* parseCoverFile called alone                                             *)
(***************************************************************************)
InitCover ==
    /\ RunnerIdle
    /\ cvFile \in CoverFiles
    /\ cvModule \in Modules
    /\ cvRet = NotReturned
    /\ DiffIdle /\ GoFilesIdle /\ GroupIdle /\ GoModIdle /\ MainIdle

CallParseCoverFile ==
    /\ ~cvRet.returned
    /\ cvRet' = Returned(parseCoverFile(cvFile, cvModule))
    /\ UNCHANGED <<runnerVars, cvFile, cvModule, dfVars, gfVars, grVars, gmVars, mnVars>>

NextCover == CallParseCoverFile

SpecCover == InitCover /\ [][NextCover]_vars

(***************************************************************************)
(* parseDiffFile called alone, one scanner line at a time                  *)
(***************************************************************************)
MaxDiffLen == 4

\* an added line whose text holds "@@ -1 +3 @@", a hunk header without counts
AddedHunkText ==
    <<"+", "@", "@", " ", "-", "1", " ", "+", "3", " ", "@", "@">>

\* file markers, a hunk header, added lines, a context line, an over-long line
DiffLineSet ==
    { FileMarker(PathA), FileMarker(PathATest), FileMarker(PathReadme),
      FileMarker(PathInTestDir),
      HunkHeader(2, 1),
      AddedText, AddedHunkText,
      <<" ", "x">>,
      LongLine }

DiffFiles == {NoFile} \cup {TextFile(ls) : ls \in SeqsUpTo(DiffLineSet, MaxDiffLen)}

InitDiff ==
    /\ RunnerIdle
    /\ CoverIdle /\ GoFilesIdle /\ GroupIdle /\ GoModIdle /\ MainIdle
    /\ dfFile \in DiffFiles
    /\ dfModule \in Modules
    /\ dfPos = 0
    /\ dfData = DiffStart
    /\ dfRet = NotReturned

\* the line scanner.Scan() would deliver next, if it delivers one
DiffMore ==
    /\ dfFile.exists
    /\ dfPos < Len(dfFile.lines)
    /\ dfFile.lines[dfPos + 1] # LongLine

\* logic.go:157-205: one iteration of the loop
ScanDiffLine ==
    /\ ~dfRet.returned
    /\ DiffMore
    /\ dfData' = DiffLine(dfData, dfFile.lines[dfPos + 1], dfModule)
    /\ dfPos' = dfPos + 1
    /\ UNCHANGED <<runnerVars, cvVars, dfFile, dfModule, dfRet, gfVars, grVars, gmVars,
                   mnVars>>

\* logic.go:140-143, 207: os.Open failed, or the loop is over
ReturnDiff ==
    /\ ~dfRet.returned
    /\ ~DiffMore
    /\ dfRet' = Returned(
           IF ~dfFile.exists
           THEN [isNil |-> TRUE, NewLines |-> EmptyMap, err |-> "open"]
           ELSE [isNil |-> FALSE, NewLines |-> dfData.NewLines,
                 err |-> IF dfPos < Len(dfFile.lines) THEN "scan" ELSE "nil"])
    /\ UNCHANGED <<runnerVars, cvVars, dfFile, dfModule, dfPos, dfData, gfVars, grVars,
                   gmVars, mnVars>>

NextDiff == ScanDiffLine \/ ReturnDiff

SpecDiff == InitDiff /\ [][NextDiff]_vars

(***************************************************************************)
(* parseGoFiles called alone                                               *)
(***************************************************************************)
MaxDecls == 2

\* top-level declarations from line start to line end
Decls ==
    {FuncDecl(start, end) : start \in 1..MaxLine, end \in 1..MaxLine}
        \cup {GenDecl(start, end) : start \in 1..MaxLine, end \in 1..MaxLine}

\* what may be at r/a.go: nothing, a directory, a file the parser rejects, a file
\* with declarations one after another
SourcesA ==
    {Dir, BadSource}
        \cup {Source(decls) : decls \in
                 {ds \in SeqsUpTo({d \in Decls : d.start <= d.end}, MaxDecls) :
                     \A i \in 1..(Len(ds) - 1) : ds[i].end <= ds[i + 1].start}}

GoTrees ==
    LET treesB == {EmptyMap, [p \in {FullB} |-> Source(<<FuncDecl(1, 2)>>)]}
    IN  treesB \cup {MapPut(t, FullA, info) : t \in treesB, info \in SourcesA}

Candidates ==
    {<<>>, <<PathA>>, <<PathB>>, <<PathA, PathB>>, <<PathB, PathA>>, <<PathA, PathA>>}

InitGoFiles ==
    /\ RunnerIdle
    /\ CoverIdle /\ DiffIdle /\ GroupIdle /\ GoModIdle /\ MainIdle
    /\ gfFiles \in Candidates
    /\ gfTree \in GoTrees
    /\ gfRet = NotReturned

\* logic.go:212-251: the error returned is always nil
CallParseGoFiles ==
    /\ ~gfRet.returned
    /\ gfRet' = Returned([Functions |-> parseGoFiles(EmptyMap, sourceRoot, gfFiles, gfTree),
                          err |-> "nil"])
    /\ UNCHANGED <<runnerVars, cvVars, dfVars, gfFiles, gfTree, grVars, gmVars, mnVars>>

NextGoFiles == CallParseGoFiles

SpecGoFiles == InitGoFiles /\ [][NextGoFiles]_vars

(***************************************************************************)
(* parseGoMod called alone                                                 *)
(***************************************************************************)
MaxManifestLen == 3

\* the directive with a separator between the keyword and the module path
ModuleLine(sep, name) == StrModule \o sep \o name

\* directives with a space, with a tab, with spaces around and a third field,
\* the keyword alone, other lines, an over-long line
ManifestLineSet ==
    { ModuleLine(<<" ">>, ModM), ModuleLine(<<" ">>, ModMP),
      ModuleLine(<<"\t">>, ModM),
      <<" ", " ">> \o ModuleLine(<<" ", " ">>, ModMP) \o <<" ", "x", " ">>,
      StrModule, StrModule \o <<" ">>,
      <<"g", "o", " ", "1">>,
      StrModule \o <<"s", " ", "m">>,
      LongLine }

GoModFiles == {NoFile} \cup {TextFile(ls) : ls \in SeqsUpTo(ManifestLineSet, MaxManifestLen)}

InitGoMod ==
    /\ RunnerIdle
    /\ CoverIdle /\ DiffIdle /\ GoFilesIdle /\ GroupIdle /\ MainIdle
    /\ gmFile \in GoModFiles
    /\ gmRet = NotReturned

CallParseGoMod ==
    /\ ~gmRet.returned
    /\ gmRet' = Returned(parseGoMod(gmFile))
    /\ UNCHANGED <<runnerVars, cvVars, dfVars, gfVars, grVars, gmFile, mnVars>>

NextGoMod == CallParseGoMod

SpecGoMod == InitGoMod /\ [][NextGoMod]_vars

(***************************************************************************)
(* The standalone program (unnamed/part_000).  Its parseGoMod,             *)
(* parseCoverFile, parseGoFiles and isLineInFunctions are those of the     *)
(* package; its parseDiffFile also skips a file whose path contains        *)
(* "coverage", and its correlation loop is written out in main.            *)
(***************************************************************************)
\* part_000:193-212: a line that starts with '+'
mainDiffAddedLine(d) ==
    IF d.currentFile = <<>> THEN d
    ELSE IF Contains(d.currentFile, StrTestGo) \/ Contains(d.currentFile, StrCoverage)
         THEN d
    ELSE IF ~HasSuffix(d.currentFile, StrDotGo) THEN d
    ELSE [d EXCEPT !.NewLines = MapPut(d.NewLines, d.currentFile,
                                       MapGet(d.NewLines, d.currentFile, {})
                                           \cup {d.plusStartLine}),
                   !.plusStartLine = d.plusStartLine + 1]

\* part_000:165-213: one iteration of the scanner loop
mainDiffLine(d, line, modName) ==
    IF HasPrefix(line, StrPlus3) THEN DiffFileMarker(d, line, modName)
    ELSE IF HunkMatches(line)
         THEN [d EXCEPT !.plusStartLine = Atoi(HunkNewStart(line)).val]
    ELSE IF HasPrefix(line, <<"+">>) /\ ~HasPrefix(line, StrPlus3)
         THEN mainDiffAddedLine(d)
    ELSE d

RECURSIVE mainDiffLines(_, _, _)
mainDiffLines(d, ls, modName) ==
    IF ls = <<>> THEN d
    ELSE mainDiffLines(mainDiffLine(d, Head(ls), modName), Tail(ls), modName)

\* part_000:143-217
mainParseDiffFile(file, modName) ==
    IF ~file.exists
    THEN [isNil |-> TRUE, NewLines |-> EmptyMap, err |-> "open"]
    ELSE [isNil |-> FALSE,
          NewLines |-> mainDiffLines(DiffStart, Scanned(file.lines), modName).NewLines,
          err |-> IF ScanErr(file.lines) THEN "scan" ELSE "nil"]

\* part_000:405-415: the files the outer loop passes over
mainSkipsFile(relFile) ==
    \/ Contains(relFile, StrTestGo)
    \/ Contains(relFile, StrCoverage)
    \/ ~HasSuffix(relFile, StrDotGo)

\* part_000:417-431: the body of the inner loop; the coverage is looked up under
\* `file`, the key of NewLines, the ranges and the uncovered list under relFile
mainCountLine(c, file, relFile, line, functions, covered) ==
    IF ~isLineInFunctions(relFile, line, functions) THEN c
    ELSE IF file \in DOMAIN covered /\ line \in covered[file]
         THEN [c EXCEPT !.totalNewLines = c.totalNewLines + 1,
                        !.coveredNewLines = c.coveredNewLines + 1]
         ELSE [c EXCEPT !.totalNewLines = c.totalNewLines + 1,
                        !.uncoveredLinesMap =
                            MapPut(c.uncoveredLinesMap, relFile,
                                   Append(MapGet(c.uncoveredLinesMap, relFile, <<>>), line))]

\* part_000:416-432: the inner loop over the lines of one file, in the order `ls`
RECURSIVE mainCountLines(_, _, _, _, _, _)
mainCountLines(c, file, relFile, ls, functions, covered) ==
    IF ls = <<>> THEN c
    ELSE mainCountLines(mainCountLine(c, file, relFile, Head(ls), functions, covered),
                        file, relFile, Tail(ls), functions, covered)

\* part_000:396-433: the outer loop over the files of NewLines, in the order `files`;
\* the lines of a file are taken in ascending order, the lists are sorted afterwards
\* the elements of a set of integers in ascending order
RECURSIVE Ascending(_)
Ascending(S) ==
    IF S = {} THEN <<>>
    ELSE LET least == CHOOSE x \in S : \A y \in S : x <= y
         IN  <<least>> \o Ascending(S \ {least})

RECURSIVE mainCountFiles(_, _, _, _, _, _)
mainCountFiles(c, files, modName, newLines, functions, covered) ==
    IF files = <<>> THEN c
    ELSE LET file == Head(files)
             relFile == RelFile(file, modName)
             next == IF mainSkipsFile(relFile) THEN c
                     ELSE mainCountLines(c, file, relFile, Ascending(newLines[file]),
                                         functions, covered)
         IN  mainCountFiles(next, Tail(files), modName, newLines, functions, covered)

\* what a run of main leaves: the exit status, the stage it ended in and the counters
MainResult(exit, stage, c) ==
    [exit |-> exit, stage |-> stage, totalNewLines |-> c.totalNewLines,
     coveredNewLines |-> c.coveredNewLines, uncoveredLinesMap |-> c.uncoveredLinesMap]

\* part_000:325-471, the map of NewLines ranged over in the order `order`
main(goModFile, coverPath, diffPath, sourceTree, min, order) ==
    LET mod == parseGoMod(goModFile)
        coverage == parseCoverFile(coverPath, mod.name)
        diff == mainParseDiffFile(diffPath, mod.name)
        filesToAnalyze == [i \in DOMAIN order |-> RelFile(order[i], mod.name)]
        functions == parseGoFiles(EmptyMap, sourceRoot, filesToAnalyze, sourceTree)
        counted == mainCountFiles(NoCounters, order, mod.name, diff.NewLines, functions,
                                  coverage.CoveredLines)
        c == [counted EXCEPT !.uncoveredLinesMap = SortUncovered(counted.uncoveredLinesMap)]
    IN  IF mod.err # "nil" THEN MainResult(1, "go.mod", NoCounters)
        ELSE IF coverage.err # "nil" THEN MainResult(1, "cover file", NoCounters)
        ELSE IF diff.err # "nil" THEN MainResult(1, "diff file", NoCounters)
        ELSE IF Len(filesToAnalyze) = 0 THEN MainResult(0, "no files", NoCounters)
        ELSE IF c.totalNewLines = 0 THEN MainResult(0, "no lines", c)
        ELSE IF FloatLess(Float(100 * c.coveredNewLines, c.totalNewLines), min)
             THEN MainResult(1, "below minimum", c)
        ELSE MainResult(0, "passed", c)

(***************************************************************************)
(* The standalone program run once                                         *)
(***************************************************************************)
InitMain ==
    /\ goMod \in ManifestFiles
    /\ coverFile \in RunnerCoverFiles
    /\ diffFile \in RunnerDiffFiles
    /\ tree \in Trees
    /\ minCoverage \in Mins
    /\ pc = "idle"
    /\ LocalsInit
    /\ ret = NotReturned
    /\ run = 0
    /\ prev = NoPrev
    /\ CoverIdle /\ DiffIdle /\ GoFilesIdle /\ GroupIdle /\ GoModIdle
    /\ mnRet = NotReturned

\* the keys of the NewLines that main's parseDiffFile returns for the inputs
MainNewLines == mainParseDiffFile(diffFile, parseGoMod(goMod).name).NewLines

CallMain ==
    /\ pc = "idle"
    /\ ~mnRet.returned
    /\ \E order \in Orders(DOMAIN MainNewLines) :
          mnRet' = Returned(main(goMod, coverFile, diffFile, tree, minCoverage, order))
    /\ UNCHANGED <<runnerVars, cvVars, dfVars, gfVars, grVars, gmVars>>

NextMain == CallMain

SpecMain == InitMain /\ [][NextMain]_vars

(***************************************************************************)
(* Properties of parseGoMod                                                *)
(***************************************************************************)
\* the lines whose first whitespace-separated token is `module` and that have a
\* second token
ModuleLinesOf(ls) ==
    {i \in DOMAIN ls : Len(Fields(ls[i])) >= 2 /\ Fields(ls[i])[1] = StrModule}

\* C16: parseGoMod returns the second token of the first line that begins with the
\* token `module` followed by whitespace, and returns an error exactly when the
\* manifest cannot be opened or read up to such a line or has no such line
C16_FirstModuleLine ==
    gmRet.returned
        => LET ls == Scanned(gmFile.lines)
               found == ModuleLinesOf(ls)
           IN  IF ~gmFile.exists \/ found = {}
               THEN gmRet.value.err # "nil"
               ELSE LET first == CHOOSE i \in found : \A j \in found : i <= j
                    IN  /\ gmRet.value.err = "nil"
                        /\ gmRet.value.name = Fields(ls[first])[2]

(***************************************************************************)
(* GroupLinesIntoRanges called alone                                       *)
(***************************************************************************)
MaxGroupLine == 5

MaxGroupLen == 4

InitGroup ==
    /\ RunnerIdle
    /\ CoverIdle /\ DiffIdle /\ GoFilesIdle /\ GoModIdle /\ MainIdle
    /\ grLines \in SeqsUpTo(1..MaxGroupLine, MaxGroupLen)
    /\ grRet = NotReturned

CallGroupLinesIntoRanges ==
    /\ ~grRet.returned
    /\ grRet' = Returned(GroupLinesIntoRanges(grLines))
    /\ UNCHANGED <<runnerVars, cvVars, dfVars, gfVars, grLines, gmVars, mnVars>>

NextGroup == CallGroupLinesIntoRanges

SpecGroup == InitGroup /\ [][NextGroup]_vars

(***************************************************************************)
(* Properties of GroupLinesIntoRanges                                      *)
(***************************************************************************)
\* the integers of the intervals, one interval after another
RECURSIVE Flatten(_)
Flatten(ranges) ==
    IF ranges = <<>> THEN <<>>
    ELSE [i \in 1..(Head(ranges)[2] - Head(ranges)[1] + 1) |-> Head(ranges)[1] + i - 1]
             \o Flatten(Tail(ranges))

\* C15: for a strictly ascending sequence of positive integers the result is nil
\* when the sequence is empty and otherwise a list of intervals with start <= end,
\* each starting more than one after the end of the one before, that flattens to
\* the sequence
C15_MaximalRuns ==
    (grRet.returned /\ StrictlyAscending(grLines) /\ \A i \in DOMAIN grLines : grLines[i] > 0)
        => LET ranges == grRet.value.ranges
           IN  /\ grRet.value.isNil <=> grLines = <<>>
               /\ grLines = <<>> => ranges = <<>>
               /\ \A i \in DOMAIN ranges : ranges[i][1] <= ranges[i][2]
               /\ \A i \in 1..(Len(ranges) - 1) : ranges[i + 1][1] > ranges[i][2] + 1
               /\ Flatten(ranges) = grLines

\* a run of more than one integer, a gap, and a later run
C15_Witness ==
    /\ grRet.returned /\ StrictlyAscending(grLines)
    /\ Len(grRet.value.ranges) >= 2
    /\ \E i \in DOMAIN grRet.value.ranges :
           grRet.value.ranges[i][1] < grRet.value.ranges[i][2]

(***************************************************************************)
(* Properties of parseGoFiles                                              *)
(***************************************************************************)
\* in the tree t the candidate resolves to a file, not a directory, that parses
ParsedIn(t, relPath) ==
    LET fullPath == sourceRoot \o <<"/">> \o relPath
    IN  fullPath \in DOMAIN t /\ ~t[fullPath].isDir /\ t[fullPath].parses

Parsed(relPath) == ParsedIn(gfTree, relPath)

\* the declarations of a parsed candidate, and the functions among them
DeclsOf(relPath) == Elements(gfTree[sourceRoot \o <<"/">> \o relPath].decls)

FuncDeclsOf(relPath) == {d \in DeclsOf(relPath) : d.isFunc}

\* the intervals in the result under a key
RecordedFor(key) ==
    LET functions == gfRet.value.Functions
    IN  IF key \in DOMAIN functions THEN Elements(functions[key]) ELSE {}

DiffNextLine == dfFile.lines[dfPos + 1]

\* currentFile names a source file that is not a test file
DiffInSource ==
    /\ dfData.currentFile # <<>>
    /\ ~Contains(dfData.currentFile, StrTestGo)
    /\ HasSuffix(dfData.currentFile, StrDotGo)

\* the next line begins with '+' and is not a "+++ " marker
DiffAtAddedLine ==
    /\ ~dfRet.returned /\ DiffMore
    /\ HasPrefix(DiffNextLine, <<"+">>) /\ ~HasPrefix(DiffNextLine, StrPlus3)

\* C11: an iteration that reads a line beginning with '+' that is no "+++ " marker,
\* while currentFile is a non-test source file, adds nextAddedLine to the lines of
\* currentFile and advances nextAddedLine by exactly one, whatever follows the '+'
C11_AddedLineRecorded ==
    [][(DiffAtAddedLine /\ DiffInSource /\ dfPos' = dfPos + 1)
          => /\ dfData'.NewLines =
                    MapPut(dfData.NewLines, dfData.currentFile,
                           MapGet(dfData.NewLines, dfData.currentFile, {})
                               \cup {dfData.plusStartLine})
             /\ dfData'.plusStartLine = dfData.plusStartLine + 1]_vars

\* the next line is a "+++ " marker; a hunk header, "@@ -a,b +c,d @@" from its
\* first character; a line that is neither and is no added line of a source file
DiffAtMarker == HasPrefix(DiffNextLine, StrPlus3)

DiffAtHunkHeader == ~DiffAtMarker /\ HunkAt(DiffNextLine, 1).ok

DiffAtIgnored ==
    /\ ~DiffAtMarker /\ ~DiffAtHunkHeader
    /\ ~HasPrefix(DiffNextLine, <<"+">>) \/ ~DiffInSource

\* C22: an iteration on a "+++ " marker changes only currentFile, one on a hunk
\* header changes only nextAddedLine, and one on any other line but an added line
\* of a source file changes none of currentFile, nextAddedLine and AddedLines
C22_Frames ==
    [][(~dfRet.returned /\ DiffMore /\ dfPos' = dfPos + 1)
          => /\ DiffAtMarker
                    => /\ dfData'.plusStartLine = dfData.plusStartLine
                       /\ dfData'.NewLines = dfData.NewLines
             /\ DiffAtHunkHeader
                    => /\ dfData'.currentFile = dfData.currentFile
                       /\ dfData'.NewLines = dfData.NewLines
             /\ DiffAtIgnored => dfData' = dfData]_vars

\* C23: every line number in the profile that parseCoverFile returns, in the
\* AddedLines that parseDiffFile returns and in the uncovered map that
\* RunDiffCoverage returns is at least 1
C23_PositiveLines ==
    /\ cvRet.returned
           => \A f \in DOMAIN cvRet.value.CoveredLines :
                  \A line \in cvRet.value.CoveredLines[f] : line >= 1
    /\ dfRet.returned
           => \A file \in DOMAIN dfRet.value.NewLines :
                  \A line \in dfRet.value.NewLines[file] : line >= 1
    /\ (ret.returned /\ ~ret.value.uncovered.isNil)
           => \A f \in DOMAIN ret.value.uncovered.m :
                  \A i \in DOMAIN ret.value.uncovered.m[f] : ret.value.uncovered.m[f][i] >= 1

\* C12: in the result of parseDiffFile no key of NewLines contains "_test.go" and
\* every key ends with ".go"
C12_SourceKeysOnly ==
    dfRet.returned
        => \A key \in DOMAIN dfRet.value.NewLines :
               ~Contains(key, StrTestGo) /\ HasSuffix(key, StrDotGo)

\* the scanner read the marker of file `path` and an added line right after it
DiffAddedUnder(path) ==
    \E i \in 1..(dfPos - 1) :
        dfFile.lines[i] = FileMarker(path) /\ dfFile.lines[i + 1] = AddedText

\* added lines of a test file, of a file that is no Go source and of a source file
\* were read, and only the last are in the result
C12_Witness ==
    /\ dfRet.returned /\ dfRet.value.err = "nil"
    /\ DiffAddedUnder(PathATest) \/ DiffAddedUnder(PathReadme)
    /\ DiffAddedUnder(PathA)
    /\ DOMAIN dfRet.value.NewLines # {}

(***************************************************************************)
(* Properties of RunDiffCoverage                                           *)
(***************************************************************************)
Done == pc = "done" /\ ret.returned

\* the (file, line) pairs of AddedLines
AddedPairs == UNION {{<<file, line>> : line \in diffData[file]} : file \in DOMAIN diffData}

\* the intervals of FunctionRanges for a file of AddedLines
RangesOf(file) ==
    LET key == RelFile(file, moduleName)
    IN  IF key \in DOMAIN funcLines
        THEN {funcLines[key][i] : i \in DOMAIN funcLines[key]}
        ELSE {}

InFunction(pair) == \E r \in RangesOf(pair[1]) : r[1] <= pair[2] /\ pair[2] <= r[2]

InProfile(pair) ==
    LET key == RelFile(pair[1], moduleName)
    IN  key \in DOMAIN coverageData /\ pair[2] \in coverageData[key]

NewPairs == {pair \in AddedPairs : InFunction(pair)}

CoveredPairs == {pair \in NewPairs : InProfile(pair)}

\* the run went through the correlation loop and returned after it
Correlated == Done /\ DOMAIN diffData # {}

\* the added, in-function, not covered lines listed under a key of the uncovered map
UncoveredOf(key) ==
    {pair[2] : pair \in {q \in NewPairs \ CoveredPairs : RelFile(q[1], moduleName) = key}}

UncoveredKeys == {RelFile(pair[1], moduleName) : pair \in NewPairs \ CoveredPairs}

Unreadable(file) == ~file.exists \/ ScanErr(file.lines)

\* the keys of AddedLines whose file does not resolve, is a directory or does not parse
FailedKeys == {file \in DOMAIN diffData : ~ParsedIn(tree, RelFile(file, moduleName))}

\* the added pairs of the other files
PairsOfParsed(pairs) == {pair \in pairs : pair[1] \notin FailedKeys}

\* C14: once parseGoFiles has run, a file of AddedLines that does not resolve, is a
\* directory or does not parse has no entry in FunctionRanges, the other files have
\* the ranges of their functions, no error comes of it, and none of its added lines
\* is counted in totalNewLines or coveredNewLines or listed as uncovered
C14_SkippedFile ==
    (pc \in {"correlate", "done"} /\ DOMAIN diffData # {})
        => /\ \A file \in FailedKeys :
                  LET relFile == RelFile(file, moduleName)
                  IN  /\ relFile \notin DOMAIN funcLines
                      /\ relFile \notin DOMAIN counters.uncoveredLinesMap
                      /\ Done => relFile \notin DOMAIN ret.value.uncovered.m
           /\ \A file \in DOMAIN diffData \ FailedKeys :
                  LET relFile == RelFile(file, moduleName)
                  IN  MapGet(funcLines, relFile, <<>>) # <<>>
                          => Elements(funcLines[relFile]) =
                                 Elements(DeclRanges(tree[sourceRoot \o <<"/">> \o relFile].decls))
           /\ Done => /\ ret.value.err \in {"nil", "below minimum"}
                       /\ counters.totalNewLines = Cardinality(PairsOfParsed(NewPairs))
                       /\ counters.coveredNewLines = Cardinality(PairsOfParsed(CoveredPairs))

\* a.go does not parse and has an added line that the profile covers; b.go parses
\* and its added line is counted
C14_Witness ==
    /\ Correlated
    /\ \E file \in FailedKeys : \E line \in diffData[file] : InProfile(<<file, line>>)
    /\ DOMAIN diffData \ FailedKeys # {}
    /\ counters.totalNewLines > 0

\* the function declarations of the file of a key of AddedLines
FuncDeclsAt(file) ==
    LET relFile == RelFile(file, moduleName)
    IN  IF ParsedIn(tree, relFile)
        THEN {d \in Elements(tree[sourceRoot \o <<"/">> \o relFile].decls) : d.isFunc}
        ELSE {}

\* the added pairs on the final line of a function declaration
FinalLinePairs == {pair \in AddedPairs : \E d \in FuncDeclsAt(pair[1]) : d.end = pair[2]}

\* those on the final line of a declaration of more than one line, where no
\* function of one line stands and no other function begins or goes on
LongFinalLinePairs ==
    {pair \in AddedPairs :
        /\ \E d \in FuncDeclsAt(pair[1]) : d.end = pair[2] /\ d.end > d.start
        /\ \A d \in FuncDeclsAt(pair[1]) :
               ~(d.start <= pair[2] /\ (pair[2] < d.end \/ d.start = d.end))}

Listed(pair) ==
    LET relFile == RelFile(pair[1], moduleName)
    IN  pair[2] \in Elements(MapGet(ret.value.uncovered.m, relFile, <<>>))

ModulePaths == {PathA, PathB}

\* the text of the profile has an entry with a positive count for a range of lines
\* of the module's file `path` that holds `line`
ProfileMarks(path, line) ==
    \E from \in 1..line, to \in line..(MaxLine + 1), count \in {1, 12} :
        EntryLine(path, from, to, count) \in Elements(coverFile.lines)

\* `line` is a line other than the last of a function of more than one line of
\* the module's file `path`, or the line of a function of one line
InDeclaration(path, line) ==
    /\ ParsedIn(tree, path)
    /\ \E d \in Elements(tree[sourceRoot \o <<"/">> \o path].decls) :
           /\ d.isFunc
           /\ d.start <= line
           /\ line < d.end \/ (d.start = d.end /\ line = d.end)

\* AddedLines has `line` for the module's file `path`
AddedTo(path, line) ==
    LET file == moduleName \o <<"/">> \o path
    IN  file \in DOMAIN diffData /\ line \in diffData[file]

\* the added lines inside functions that the profile marks covered
MarkedAdded ==
    {pl \in ModulePaths \X (1..(MaxLine + MaxAdded)) :
        AddedTo(pl[1], pl[2]) /\ InDeclaration(pl[1], pl[2]) /\ ProfileMarks(pl[1], pl[2])}

\* C18: the key under which a file of AddedLines is looked up is the key under
\* which parseCoverFile stores a profile entry of that file and the key under which
\* parseGoFiles stores its ranges, and every added line inside a function that the
\* profile marks covered is counted as covered and not listed as uncovered
C18_SameKeys ==
    Correlated
        => /\ \A file \in DOMAIN diffData :
                  LET relFile == RelFile(file, moduleName)
                      entry == FormatEntry([path |-> file, span |-> <<1, 1>>, count |-> 1])
                      stored == parseCoverFile(TextFile(<<entry>>), moduleName).CoveredLines
                  IN  /\ DOMAIN stored = {relFile}
                      /\ DOMAIN parseGoFiles(EmptyMap, sourceRoot, <<relFile>>, tree)
                             \subseteq {relFile}
                      /\ ParsedIn(tree, relFile) /\ FuncDeclsAt(file) # {}
                             => relFile \in DOMAIN funcLines
           /\ counters.coveredNewLines >= Cardinality(MarkedAdded)
           /\ \A pl \in MarkedAdded :
                  pl[2] \notin Elements(MapGet(ret.value.uncovered.m, pl[1], <<>>))

\* C19: after correlation an error is returned only when the returned percentage is
\* less than minCoverage: a percentage equal to the threshold, or above it, gives
\* no error
C19_StrictThreshold ==
    Correlated
        => (ret.value.percent.num >= minCoverage * ret.value.percent.den
                => ret.value.err = "nil")

\* half of the counted lines are covered and the threshold is 50
C19_Witness ==
    /\ Correlated
    /\ counters.totalNewLines = 2 /\ counters.coveredNewLines = 1
    /\ minCoverage = 50
    /\ ret.value.percent = Float(50, 1)
    /\ ret.value.err = "nil"

\* the manifest cannot be opened or read up to a module line, or has none
ManifestFails == ~goMod.exists \/ ModuleLinesOf(Scanned(goMod.lines)) = {}

\* the steps of pc inside one call, and from one call to the next
StageSteps ==
    { <<"parseGoMod", "parseCoverFile">>, <<"parseCoverFile", "parseDiffFile">>,
      <<"parseDiffFile", "parseGoFiles">>, <<"parseGoFiles", "correlate">>,
      <<"done", "parseGoMod">> }
        \cup {<<stage, "done">> :
                 stage \in {"parseGoMod", "parseCoverFile", "parseDiffFile", "parseGoFiles",
                            "correlate"}}

\* the tag of the earliest stage whose input fails
EarliestTag ==
    IF ManifestFails THEN "go.mod"
    ELSE IF Unreadable(coverFile) THEN "cover file"
    ELSE IF Unreadable(diffFile) THEN "diff file"
    ELSE "none"

\* C20: the stages run in the order manifest, profile, diff, function ranges,
\* correlation; a stage that fails is followed by no later stage, whose variables
\* keep their initial values; and the error returned has the tag of the earliest
\* stage whose input fails, each stage having a tag of its own
C20_StageOrder ==
    /\ [][pc' # pc => <<pc, pc'>> \in StageSteps]_vars
    /\ [](Done =>
             /\ EarliestTag # "none" => ret.value.err = EarliestTag
             /\ EarliestTag = "none" => ret.value.err \in {"nil", "below minimum"}
             /\ ret.value.err = "go.mod" => coverageData = EmptyMap
             /\ ret.value.err \in {"go.mod", "cover file"} => diffData = EmptyMap
             /\ ret.value.err \in {"go.mod", "cover file", "diff file"}
                    => funcLines = EmptyMap /\ counters = NoCounters)

\* the profile and the diff are both unreadable and the error is that of the profile
C20_Witness ==
    /\ Done
    /\ ~ManifestFails /\ Unreadable(coverFile) /\ Unreadable(diffFile)
    /\ ret.value.err = "cover file"

\* C24: every key of FunctionRanges is the module-prefix-stripped key of a file of
\* AddedLines with an added line, every such file that parses and has a function
\* has its key in FunctionRanges, and a file the diff does not name is not parsed
C24_DiffDrivesParsing ==
    /\ \A key \in DOMAIN funcLines :
           \E file \in DOMAIN diffData :
               RelFile(file, moduleName) = key /\ diffData[file] # {}
    /\ pc \in {"correlate", "done"}
           => \A file \in DOMAIN diffData :
                  FuncDeclsAt(file) # {} => RelFile(file, moduleName) \in DOMAIN funcLines

\* the diff names a.go alone, the tree has a.go and b.go with functions, and
\* FunctionRanges has the key a.go alone
C24_Witness ==
    /\ pc = "correlate"
    /\ DOMAIN diffData = {ModM \o <<"/">> \o PathA}
    /\ ParsedIn(tree, PathB) /\ ParsedIn(tree, PathA)
    /\ DOMAIN funcLines = {PathA}

\* C25: when RunDiffCoverage returns an error, the uncovered map is non-nil exactly
\* when the error is the below-threshold verdict and nil exactly when it is an
\* error of the manifest, the profile or the diff
C25_ErrorKinds ==
    (Done /\ ret.value.err # "nil")
        => /\ ret.value.err \in {"below minimum", "go.mod", "cover file", "diff file"}
           /\ ~ret.value.uncovered.isNil <=> ret.value.err = "below minimum"
           /\ ret.value.uncovered.isNil
                  <=> ret.value.err \in {"go.mod", "cover file", "diff file"}

\* a below-threshold verdict that lists an uncovered line
C25_Witness ==
    /\ Done
    /\ ret.value.err = "below minimum"
    /\ ~ret.value.uncovered.isNil /\ DOMAIN ret.value.uncovered.m # {}

\* C1: when some added line lies inside a function range, the returned percentage
\* is 100 * coveredNewLines / totalNewLines, the two counts being the numbers of
\* in-function added pairs that are covered and of all in-function added pairs
C1_Percent ==
    (Correlated /\ NewPairs # {})
        => ret.value.percent = Float(100 * Cardinality(CoveredPairs), Cardinality(NewPairs))

C1_Witness ==
    /\ Correlated
    /\ Cardinality(NewPairs) = 3
    /\ Cardinality(CoveredPairs) = 1

\* C2: after correlation the uncovered map has a key exactly for the files with an
\* added, in-function, not covered line, and lists exactly those lines, strictly
\* ascending
C2_UncoveredExact ==
    Correlated =>
        /\ ~ret.value.uncovered.isNil
        /\ DOMAIN ret.value.uncovered.m = UncoveredKeys
        /\ \A key \in DOMAIN ret.value.uncovered.m :
              /\ StrictlyAscending(ret.value.uncovered.m[key])
              /\ Elements(ret.value.uncovered.m[key]) = UncoveredOf(key)

\* C3: when parseDiffFile succeeds with an empty AddedLines the result is exactly
\* 100%, a nil map and no error, whatever the profile and the threshold
C3_NoAddedLines ==
    (Done /\ parseGoMod(goMod).err = "nil" /\ ~Unreadable(coverFile)
          /\ ~Unreadable(diffFile) /\ DOMAIN diffData = {})
        => ret.value = Result(Float(100, 1), NilMap, "nil")

C3_Witness ==
    /\ Done /\ parseGoMod(goMod).err = "nil" /\ ~Unreadable(coverFile)
    /\ ~Unreadable(diffFile) /\ DOMAIN diffData = {}
    /\ Len(diffFile.lines) > 0
    /\ DOMAIN coverageData # {}
    /\ minCoverage = 101

\* C4: when AddedLines is not empty and none of its lines lies inside a function
\* range the result is exactly 100%, an empty map and no error, whatever the threshold
C4_NoLineInFunction ==
    (Correlated /\ NewPairs = {})
        => ret.value = Result(Float(100, 1), GoMap(EmptyMap), "nil")

C4_Witness ==
    /\ Correlated /\ NewPairs = {}
    /\ DOMAIN funcLines # {}
    /\ minCoverage = 100

\* C5: a below-threshold return carries the percentage and the uncovered map that a
\* call on the same inputs with a threshold that is met returns
C5_BelowKeepsDiagnostics ==
    (Done /\ run = 2 /\ ret.value.err = "below minimum" /\ prev.ret.value.err = "nil")
        => /\ ret.value.percent = prev.ret.value.percent
           /\ ret.value.uncovered = prev.ret.value.uncovered

C5_Witness ==
    /\ Done /\ run = 2 /\ ret.value.err = "below minimum" /\ prev.ret.value.err = "nil"
    /\ ret.value.percent = Float(100, 3)
    /\ \E key \in DOMAIN ret.value.uncovered.m : Len(ret.value.uncovered.m[key]) = 2

\* C6: after a call that succeeded with percentage p, a call on the same inputs
\* with a threshold above p returns the below-threshold error, p and the same map
C6_Monotone ==
    (Done /\ run = 2 /\ prev.ret.value.err = "nil"
          /\ FloatLess(prev.ret.value.percent, minCoverage))
        => /\ ret.value.err = "below minimum"
           /\ ret.value.percent = prev.ret.value.percent
           /\ ret.value.uncovered = prev.ret.value.uncovered

\* C6 amended: the same, for a percentage computed from at least one in-function
\* added line
C6_MonotoneComputed ==
    (Done /\ run = 2 /\ prev.ret.value.err = "nil"
          /\ FloatLess(prev.ret.value.percent, minCoverage)
          /\ NewPairs # {})
        => /\ ret.value.err = "below minimum"
           /\ ret.value.percent = prev.ret.value.percent
           /\ ret.value.uncovered = prev.ret.value.uncovered

C6_Witness ==
    /\ Done /\ run = 2 /\ prev.ret.value.err = "nil"
    /\ FloatLess(prev.ret.value.percent, minCoverage)
    /\ NewPairs # {}
    /\ prev.minCoverage = 50 /\ minCoverage = 100
    /\ ret.value.percent = Float(200, 3)

\* C7: two calls on the same files with the same threshold return the same
\* percentage, the same uncovered map and the same error, whatever the order in
\* which the maps are ranged over
C7_Deterministic ==
    (Done /\ run = 2 /\ minCoverage = prev.minCoverage) => ret = prev.ret

C7_Witness ==
    /\ Done /\ run = 2 /\ minCoverage = prev.minCoverage
    /\ \E key \in DOMAIN ret.value.uncovered.m : Len(ret.value.uncovered.m[key]) >= 2

\* C8: an unreadable or module-less manifest, an unreadable profile or an
\* unreadable diff gives an error, percentage 0 and a nil map
C8_FatalErrors ==
    (Done /\ (parseGoMod(goMod).err # "nil" \/ Unreadable(coverFile) \/ Unreadable(diffFile)))
        => /\ ret.value.err \in {"go.mod", "cover file", "diff file"}
           /\ ret.value.percent = Float(0, 1)
           /\ ret.value.uncovered = NilMap

C8_Witness ==
    /\ Done
    /\ parseGoMod(goMod).err = "nil" /\ ~Unreadable(coverFile)
    /\ diffFile.exists /\ ScanErr(diffFile.lines)
    /\ ret.value.err = "diff file"

(***************************************************************************)
(* Properties of parseCoverFile                                            *)
(***************************************************************************)
\* the well-formed entries among the lines of the profile
EntriesOf(ls) == {e \in CoverEntries : \E i \in DOMAIN ls : ls[i] = FormatEntry(e)}

\* the entry is one of file f of the module, with a positive hit count
Counts(e, f, module) == e.path = module \o <<"/">> \o f /\ e.count > 0

\* C9: after a successful parseCoverFile, line l is covered for file f exactly when
\* the profile has a well-formed entry with path ModuleIdentifier/f, hitCount > 0
\* and startLine <= l <= endLine
C9_CoveredIff ==
    (cvRet.returned /\ cvRet.value.err = "nil") =>
        LET cov == cvRet.value.CoveredLines
            present == EntriesOf(cvFile.lines)
        IN  /\ \A f \in DOMAIN cov : \A l \in cov[f] :
                  \E e \in present :
                      Counts(e, f, cvModule) /\ e.span[1] <= l /\ l <= e.span[2]
            /\ \A e \in present : \A f \in {PathA, PathPA} \cup DOMAIN cov :
                  Counts(e, f, cvModule) => (e.span[1]..e.span[2]) \subseteq MapGet(cov, f, {})

C9_Witness ==
    /\ cvRet.returned /\ cvRet.value.err = "nil"
    /\ \E e0, e1 \in CoverEntries :
          /\ cvFile.lines = <<FormatEntry(e0), FormatEntry(e1)>>
          /\ e0.path = cvModule \o <<"/">> \o PathA /\ e0.count = 0 /\ e0.span = <<1, 2>>
          /\ Counts(e1, PathA, cvModule) /\ e1.span = <<2, 3>>
    /\ cvRet.value.CoveredLines = [f \in {PathA} |-> {2, 3}]

WithoutMalformed(ls) == SelectSeq(ls, LAMBDA line : line \notin MalformedLines)

C21_FirstLineIgnored ==
    (cvRet.returned /\ cvRet.value.err = "nil" /\ cvFile.lines # <<>>)
        => cvRet.value.CoveredLines =
               parseCoverFile(TextFile(Tail(cvFile.lines)), cvModule).CoveredLines

WithoutModeLines(ls) == SelectSeq(ls, LAMBDA line : ~HasPrefix(line, StrModeColon))

\* C21 as amended: a line that begins with "mode:" contributes no covered line,
\* first or not, and a first line that is a well-formed entry of the module with a
\* positive count has its lines covered
C21_ModeLinesIgnored ==
    (cvRet.returned /\ cvRet.value.err = "nil")
        => /\ cvRet.value.CoveredLines =
                  parseCoverFile(TextFile(WithoutModeLines(cvFile.lines)),
                                 cvModule).CoveredLines
           /\ \A e \in CoverEntries : \A f \in {PathA, PathPA} :
                  (cvFile.lines # <<>> /\ cvFile.lines[1] = FormatEntry(e)
                        /\ Counts(e, f, cvModule))
                      => (e.span[1]..e.span[2])
                             \subseteq MapGet(cvRet.value.CoveredLines, f, {})

\* the first line is an entry that counts, the mode declaration comes after it
C21_Witness ==
    /\ cvRet.returned /\ cvRet.value.err = "nil"
    /\ Len(cvFile.lines) = 2 /\ cvFile.lines[2] = ModeLine
    /\ \E e \in CoverEntries :
           /\ cvFile.lines[1] = FormatEntry(e)
           /\ Counts(e, PathA, cvModule) /\ e.span = <<1, 2>>
    /\ cvRet.value.CoveredLines = [f \in {PathA} |-> {1, 2}]

\* the added lines of the module's files that lie inside a function and that the
\* text of the profile marks covered, for the inputs of the standalone program
MainMarkedAdded ==
    {pl \in ModulePaths \X (1..(MaxLine + MaxAdded)) :
        /\ LET file == parseGoMod(goMod).name \o <<"/">> \o pl[1]
           IN  file \in DOMAIN MainNewLines /\ pl[2] \in MainNewLines[file]
        /\ InDeclaration(pl[1], pl[2])
        /\ ProfileMarks(pl[1], pl[2])}

\* C26: in the standalone program an added line inside a function that the profile
\* marks covered is counted in coveredNewLines and is not listed as uncovered
C26_MainSameKey ==
    (mnRet.returned /\ mnRet.value.stage \in {"no lines", "below minimum", "passed"})
        => /\ mnRet.value.coveredNewLines >= Cardinality(MainMarkedAdded)
           /\ \A pl \in MainMarkedAdded :
                  pl[2] \notin Elements(MapGet(mnRet.value.uncoveredLinesMap, pl[1], <<>>))

\* the sum of the lengths of the lists of an uncovered map
RECURSIVE SumOfLengths(_)
SumOfLengths(m) ==
    IF DOMAIN m = {} THEN 0
    ELSE LET f == CHOOSE k \in DOMAIN m : TRUE
         IN  Len(m[f]) + SumOfLengths([k \in DOMAIN m \ {f} |-> m[k]])

\* the added lines inside a function of the files the outer loop has left behind
\* or is at
VisitedNewPairs == {pair \in NewPairs : pair[1] \notin iter.files}

\* the places in FunctionRanges, under the key of the file of `pair`, of the ranges
\* that hold its line
RangesHolding(pair) ==
    LET ranges == MapGet(funcLines, RelFile(pair[1], moduleName), <<>>)
    IN  {i \in 1..Len(ranges) : ranges[i][1] <= pair[2] /\ pair[2] <= ranges[i][2]}

\* C27: during the correlation loop and after it totalNewLines is coveredNewLines
\* plus the lengths of the uncovered lists, coveredNewLines lies between 0 and
\* totalNewLines, no (file, line) pair is counted more than once, whatever the
\* number of function ranges that hold the line, and a returned percentage lies
\* between 0 and 100
C27_Accounting ==
    /\ pc \in {"correlate", "done"}
           => /\ counters.totalNewLines =
                     counters.coveredNewLines + SumOfLengths(counters.uncoveredLinesMap)
              /\ 0 <= counters.coveredNewLines
              /\ counters.coveredNewLines <= counters.totalNewLines
              /\ counters.totalNewLines <= Cardinality(VisitedNewPairs)
    /\ Correlated => counters.totalNewLines = Cardinality(NewPairs)
    /\ Done => /\ 0 <= ret.value.percent.num
               /\ ret.value.percent.num <= 100 * ret.value.percent.den

\* the loop is under way, a line held by two function ranges has been counted, and
\* the counters stand at one covered and one uncovered line
C27_Witness ==
    /\ pc = "correlate"
    /\ DOMAIN diffData = {ModM \o <<"/">> \o PathA}
    /\ \E pair \in VisitedNewPairs : Cardinality(RangesHolding(pair)) = 2
    /\ counters.totalNewLines = Cardinality(VisitedNewPairs)
    /\ counters.totalNewLines = 2
    /\ counters.coveredNewLines = 1

\* C28: a below-threshold verdict for a threshold of at most 100 comes with an
\* uncovered map that holds at least one line, and a returned percentage of 100
\* comes with an uncovered map that holds no line
C28_VerdictAndMap ==
    /\ (Done /\ ret.value.err = "below minimum" /\ minCoverage <= 100)
           => \E key \in DOMAIN ret.value.uncovered.m : Len(ret.value.uncovered.m[key]) >= 1
    /\ (Done /\ ret.value.percent = Float(100, 1))
           => \A key \in DOMAIN ret.value.uncovered.m : Len(ret.value.uncovered.m[key]) = 0

\* the threshold is 100, half of the new lines are covered and the other is listed
C28_Witness ==
    /\ Done /\ ret.value.err = "below minimum" /\ minCoverage = 100
    /\ ret.value.percent = Float(50, 1)
    /\ SumOfLengths(ret.value.uncovered.m) = 1

\* the lines of `ls` in the order `order` of their places
Reordered(ls, order) == [i \in DOMAIN ls |-> ls[order[i]]]

\* `ls` without the line at place i
RemovedAt(ls, i) == SubSeq(ls, 1, i - 1) \o SubSeq(ls, i + 1, Len(ls))

\* C29: the profile of a successful parseCoverFile holds, for every file, the union
\* of the ranges of the entries of that file with a positive hit count; it is the
\* profile of the same lines in any other order, of the text without a line that
\* is written a second time, and of the text without an entry with hit count 0
C29_UnionOfRanges ==
    (cvRet.returned /\ cvRet.value.err = "nil") =>
        LET cov == cvRet.value.CoveredLines
            ls == cvFile.lines
            profile(text) == parseCoverFile(TextFile(text), cvModule).CoveredLines
        IN  /\ \A f \in {PathA, PathPA} \cup DOMAIN cov :
                  MapGet(cov, f, {}) =
                      UNION {e.span[1]..e.span[2] :
                                e \in {x \in EntriesOf(ls) : Counts(x, f, cvModule)}}
            /\ \A order \in Orders(DOMAIN ls) : profile(Reordered(ls, order)) = cov
            /\ \A i, j \in DOMAIN ls :
                  (i < j /\ ls[i] = ls[j]) => profile(RemovedAt(ls, j)) = cov
            /\ \A i \in DOMAIN ls :
                  (\E e \in CoverEntries : e.count = 0 /\ ls[i] = FormatEntry(e))
                      => profile(RemovedAt(ls, i)) = cov

\* two entries of one file with a positive hit count and ranges that differ
C29_Witness ==
    /\ cvRet.returned /\ cvRet.value.err = "nil"
    /\ \E e1, e2 \in CoverEntries :
          /\ cvFile.lines = <<FormatEntry(e1), FormatEntry(e2)>>
          /\ Counts(e1, PathA, cvModule) /\ e1.span = <<1, 2>>
          /\ Counts(e2, PathA, cvModule) /\ e2.span = <<3, 3>>
    /\ cvRet.value.CoveredLines = [f \in {PathA} |-> {1, 2, 3}]

\* C30: an iteration that reads an added line while currentFile is a .go file
\* whose name does not end with "_test.go" records the line, also when the path
\* holds "_test.go" before its end
C30_TestSuffixOnly ==
    [][(/\ DiffAtAddedLine /\ dfPos' = dfPos + 1
        /\ DiffNextLine = AddedText
        /\ dfData.currentFile # <<>>
        /\ HasSuffix(dfData.currentFile, StrDotGo)
        /\ ~HasSuffix(dfData.currentFile, StrTestGo))
           => dfData.plusStartLine \in MapGet(dfData'.NewLines, dfData.currentFile, {})]_vars

====
